---- MODULE Spec2Model ----
(***************************************************************************)
(* Coffee-shop point-of-sale backend (src/coffee-shop/app.py).             *)
(*                                                                         *)
(* The store is one SQLite file with the tables menu_items and orders.     *)
(* Every request context owns one connection (get_db); the sqlite3 module  *)
(* opens a transaction implicitly before the first INSERT/UPDATE/DELETE of *)
(* a connection, a SELECT issued outside a transaction reads the committed *)
(* store, one connection at a time may hold the write lock, commit()       *)
(* publishes the connection's writes and close() without commit discards   *)
(* them.  Prices (REAL) are counted in hundredths; every price used below  *)
(* is a multiple of 0.5, so the float arithmetic of the code is exact.     *)
(* created_at and the generated order id are the position in `orders`.     *)
(*                                                                         *)
(* `python app.py` runs the start-up block (init_db, the guarded start of   *)
(* the updater thread, app.run) in the launched process and again in the   *)
(* child of the reloader; each updater thread runs init_db in a context    *)
(* of its own, sleeping between the runs.                                  *)
(***************************************************************************)
EXTENDS Integers, Sequences, FiniteSets, TLC

\* ---------------------------------------------------------------- bounds
NumContexts == 2
MaxRequests == 2
MaxRowId == 9

\* The application contexts that serve requests.
Contexts == 1..NumContexts

\* The processes of `python app.py`: the one that was launched, which
\* app.run(debug=True) turns into the supervisor of the reloader, and the
\* child the reloader spawns with WERKZEUG_RUN_MAIN=true.
Procs == {1, 2}

\* The application context in which process m runs init_db itself, first in
\* the start-up block and then in its updater thread.
Ctx(m) == NumContexts + m

AllContexts == Contexts \cup {Ctx(m) : m \in Procs}

\* ------------------------------------------------------- JSON / Python
\* A JSON value of a request body: a number (c, in hundredths), a string,
\* null, a list, or an absent key.
Num(n) == [t |-> "num", c |-> n, s |-> "", l |-> <<>>]

Str(x) == [t |-> "str", c |-> 0, s |-> x, l |-> <<>>]

NumStr(n) == [t |-> "numstr", c |-> n, s |-> "", l |-> <<>>]

Null == [t |-> "null", c |-> 0, s |-> "", l |-> <<>>]

Absent == [t |-> "absent", c |-> 0, s |-> "", l |-> <<>>]

List(xs) == [t |-> "list", c |-> 0, s |-> "", l |-> xs]

Ok(n) == [ok |-> TRUE, v |-> n]

Raised == [ok |-> FALSE, v |-> 0]

\* data.get(key, default): the default only replaces an absent key.
Get(j, default) == IF j.t = "absent" THEN default ELSE j

\* data.get(key): an absent key reads as None.
GetNone(j) == IF j.t = "absent" THEN Null ELSE j

Trunc(n) == IF n >= 0 THEN n \div 100 ELSE -((-n) \div 100)

\* float(x): numbers and numeric strings convert, None raises TypeError,
\* any other string raises ValueError.  Result in hundredths.
PyFloat(j) ==
  IF j.t \in {"num", "numstr"} THEN Ok(j.c) ELSE Raised

\* int(x): a number truncates toward zero, a string converts only when it
\* spells an integer, None and lists raise TypeError.
PyInt(j) ==
  CASE j.t = "num" -> Ok(Trunc(j.c))
    [] j.t = "numstr" -> IF j.c % 100 = 0 THEN Ok(j.c \div 100) ELSE Raised
    [] OTHER -> Raised

\* Python truthiness of a request value.
Truthy(j) ==
  CASE j.t \in {"null", "absent"} -> FALSE
    [] j.t = "num" -> j.c # 0
    [] j.t = "str" -> j.s # ""
    [] j.t = "list" -> j.l # <<>>
    [] OTHER -> TRUE

\* ------------------------------------------------------------ the store
Row(n, p, i) == [name |-> n, price |-> p, inventory |-> i]

NoMenu == [i \in {} |-> Row("", 0, 0)]

\* The rows of the default catalog (init_db).
DefaultItems ==
  << Row("Espresso", 250, 20), Row("Latte", 350, 15),
     Row("Cappuccino", 300, 15), Row("Tea", 200, 25) >>

MkStore(m, q, o) == [menu |-> m, seq |-> q, orders |-> o]

\* INSERT INTO menu_items: AUTOINCREMENT hands out seq + 1.
\* The rowid one above the largest rowid in the table.
Largest(S) == IF S = {} THEN 0 ELSE CHOOSE x \in S : \A y \in S : y <= x

NextIdAboveLargest(st) == Largest(DOMAIN st.menu) + 1

\* id INTEGER PRIMARY KEY AUTOINCREMENT: one above the largest rowid the
\* table has ever held, which sqlite_sequence records.
NextId(st) == st.seq + 1

InsertItem(st, r) ==
  MkStore([i \in DOMAIN st.menu \cup {NextId(st)} |->
             IF i = NextId(st) THEN r ELSE st.menu[i]],
          NextId(st), st.orders)

RECURSIVE InsertMany(_, _)
InsertMany(st, rs) ==
  IF rs = <<>> THEN st ELSE InsertMany(InsertItem(st, Head(rs)), Tail(rs))

\* ------------------------------------------------------ order helpers
Member(s, x) == \E j \in 1..Len(s) : s[j] = x

\* Counter(items).keys(): the distinct ids in order of first occurrence.
RECURSIVE KeysOf(_)
KeysOf(s) ==
  IF s = <<>> THEN <<>>
  ELSE LET front == SubSeq(s, 1, Len(s) - 1)
           last == s[Len(s)]
       IN IF Member(front, last) THEN KeysOf(front)
          ELSE Append(KeysOf(front), last)

\* Counter(items)[i]
Count(s, i) == Cardinality({j \in 1..Len(s) : s[j] = i})

\* [int(i) for i in items]: Raised when some element does not convert.
ToInts(l) ==
  IF \E j \in 1..Len(l) : ~PyInt(l[j]).ok THEN Raised
  ELSE Ok([j \in 1..Len(l) |-> PyInt(l[j]).v])

\* The rows the SELECT ... WHERE id IN (keys) returns.
Fetch(m, keys) ==
  [i \in {keys[j] : j \in 1..Len(keys)} \cap DOMAIN m |-> m[i]]

NotFound(i) == [id |-> i, kind |-> "not_found", name |-> "", left |-> 0]

OnlyLeft(i, r) ==
  [id |-> i, kind |-> "only_left", name |-> r.name, left |-> r.inventory]

\* The validation loop: one entry per requested id that is unknown or
\* short of stock, in the order of the keys.
RECURSIVE InsufficientFirstOnly(_, _, _)
InsufficientFirstOnly(keys, s, rws) ==
  IF keys = <<>> THEN <<>>
  ELSE LET i == Head(keys)
       IN IF i \notin DOMAIN rws THEN <<NotFound(i)>>
          ELSE IF rws[i].inventory < Count(s, i) THEN <<OnlyLeft(i, rws[i])>>
          ELSE InsufficientFirstOnly(Tail(keys), s, rws)

RECURSIVE Insufficient(_, _, _)
Insufficient(keys, s, rws) ==
  IF keys = <<>> THEN <<>>
  ELSE LET i == Head(keys)
           rest == Insufficient(Tail(keys), s, rws)
       IN IF i \notin DOMAIN rws THEN <<NotFound(i)>> \o rest
          ELSE IF rws[i].inventory < Count(s, i) THEN <<OnlyLeft(i, rws[i])>> \o rest
          ELSE rest

\* prices.get(item_id, 0) * qty
LinePrice(rws, i, qty) == (IF i \in DOMAIN rws THEN rws[i].price ELSE 0) * qty

\* UPDATE menu_items SET inventory = inventory - qty WHERE id = i
DecrementOne(st, i, qty) ==
  MkStore([j \in DOMAIN st.menu |->
             IF j = i THEN [st.menu[j] EXCEPT !.inventory = @ - 1]
             ELSE st.menu[j]],
          st.seq, st.orders)

Decrement(st, i, qty) ==
  MkStore([j \in DOMAIN st.menu |->
             IF j = i THEN [st.menu[j] EXCEPT !.inventory = @ - qty]
             ELSE st.menu[j]],
          st.seq, st.orders)

Digits == <<"0", "1", "2", "3", "4", "5", "6", "7", "8", "9">>

\* str(n) as a sequence of characters.
RECURSIVE PyStr(_)
PyStr(n) ==
  IF n < 0 THEN <<"-">> \o PyStr(-n)
  ELSE IF n < 10 THEN <<Digits[n + 1]>>
  ELSE PyStr(n \div 10) \o <<Digits[(n % 10) + 1]>>

\* ','.join(map(str, items))
RECURSIVE Join(_)
Join(s) ==
  IF s = <<>> THEN <<>>
  ELSE IF Len(s) = 1 THEN PyStr(s[1])
  ELSE PyStr(s[1]) \o <<",">> \o Join(Tail(s))

\* The text stored in the items column of a non-empty order.
ItemsTextOfKeys(s) == Join(KeysOf(s))

ItemsText(s) == Join(s)

Order(c, txt, t) == [customer_name |-> c, items |-> txt, total |-> t]

\* str(items) of the empty list in place of ''.
EmptyOrderListText(c) == Order(c, <<"[", "]">>, 0)

\* The row of an order without items: (customer_name, '', 0.0).
EmptyOrder(c) == Order(c, <<>>, 0)

\* INSERT INTO orders
InsertOrder(st, o) == MkStore(st.menu, st.seq, Append(st.orders, o))

\* data.get('customer_name', 'Guest')
Customer(j) == Get(j, Str("Guest")).s

\* ------------------------------------------------------- menu helpers
\* A field of a PUT body after conversion: set is FALSE for None.
Field(v) == [ok |-> TRUE, set |-> TRUE, v |-> v]

Unset == [ok |-> TRUE, set |-> FALSE, v |-> 0]

Invalid == [ok |-> FALSE, set |-> FALSE, v |-> 0]

\* price = float(price) if price is not None else None
PutPrice(j) ==
  IF GetNone(j).t = "null" THEN Unset
  ELSE IF PyFloat(j).ok THEN Field(PyFloat(j).v) ELSE Invalid

\* inventory = int(inventory) if inventory is not None else None
PutInventory(j) ==
  IF GetNone(j).t = "null" THEN Unset
  ELSE IF PyInt(j).ok THEN Field(PyInt(j).v) ELSE Invalid

\* The SET clause built from the fields that are not None.
SetClauseResetsOthers(r, j, pr, inv) ==
  [name |-> IF GetNone(j).t # "null" THEN j.s ELSE r.name,
   price |-> IF pr.set THEN pr.v ELSE 0,
   inventory |-> IF inv.set THEN inv.v ELSE 0]

SetClause(r, j, pr, inv) ==
  [name |-> IF GetNone(j).t # "null" THEN j.s ELSE r.name,
   price |-> IF pr.set THEN pr.v ELSE r.price,
   inventory |-> IF inv.set THEN inv.v ELSE r.inventory]

\* UPDATE menu_items SET ... without the WHERE clause.
UpdateItemAllRows(st, i, j, pr, inv) ==
  MkStore([x \in DOMAIN st.menu |-> SetClause(st.menu[x], j, pr, inv)],
          st.seq, st.orders)

\* UPDATE menu_items SET ... WHERE id = i
UpdateItem(st, i, j, pr, inv) ==
  MkStore([x \in DOMAIN st.menu |->
             IF x = i THEN SetClause(st.menu[x], j, pr, inv) ELSE st.menu[x]],
          st.seq, st.orders)

\* DELETE FROM menu_items WHERE id = i
DeleteItemAndOrders(st, i) ==
  MkStore([x \in DOMAIN st.menu \ {i} |-> st.menu[x]], st.seq,
          SelectSeq(st.orders, LAMBDA o : ~Member(o.items, PyStr(i)[1])))

\* DELETE ... WHERE id >= ? in place of WHERE id = ?
DeleteItemAndLater(st, i) ==
  MkStore([x \in {y \in DOMAIN st.menu : y < i} |-> st.menu[x]], st.seq,
          st.orders)

DeleteItem(st, i) ==
  MkStore([x \in DOMAIN st.menu \ {i} |-> st.menu[x]], st.seq, st.orders)

NoTx == [open |-> FALSE, st |-> MkStore(NoMenu, 0, <<>>)]

\* The count that makes init_db seed.
NeedsSeedAlways(c) == TRUE

NeedsSeed(c) == c = 0

\* What close() of a connection leaves in the store: pending writes of an
\* open transaction are discarded.
OnCloseCommits(committed, t) == IF t.open THEN t.st ELSE committed

OnClose(committed, t) == committed

NoReq ==
  [op |-> "none", customer |-> Absent, items |-> Absent, id |-> 0,
   name |-> Absent, price |-> Absent, inventory |-> Absent]

NoResp == [status |-> 0, error |-> "", details |-> <<>>, total |-> 0, id |-> 0]

Resp(code, err) ==
  [status |-> code, error |-> err, details |-> <<>>, total |-> 0, id |-> 0]

VARIABLES schema, menu, seq, orders, everIds, lock, tx, pc, req, ids, rows,
          total, k, lastrowid, resp, budget, lastInit, began, debugEnv, main,
          upc, hist

vars == <<schema, menu, seq, orders, everIds, lock, tx, pc, req, ids, rows,
          total, k, lastrowid, resp, budget, lastInit, began, debugEnv, main,
          upc, hist>>

\* everIds is the history of the ids the committed menu has ever held.
storeVars == <<schema, menu, seq, orders, everIds>>

localVars == <<ids, rows, total, k, lastrowid>>

\* budget counts the requests still to be started; lastInit remembers the
\* menu the latest successful init_db left, while no other request has run.
\* began is the committed store a menu request found when it began.
\* debugEnv is app.debug as the environment sets it, main the position of
\* each process in the start-up block, upc the position of its updater
\* thread and hist what that thread has done so far.
procVars == <<debugEnv, main, upc, hist>>

envVars == <<budget, lastInit, began, procVars>>

NoBegan == [valid |-> FALSE, st |-> MkStore(NoMenu, 0, <<>>)]

MenuOps == {"post", "put", "delete"}

\* What an updater thread has done: the invocations of init_db so far
\* (counted up to MaxCount), the sleeps since the latest invocation (counted
\* up to MaxCount) and whether the latest run raised.
MaxCount == 2

NoHist == [runs |-> 0, sleeps |-> 0, failed |-> FALSE]

NoLastInit == [valid |-> FALSE, menu |-> NoMenu]

Committed == MkStore(menu, seq, orders)

\* What the connection of context p reads.
View(p) == IF tx[p].open THEN tx[p].st ELSE Committed

\* A write statement of context p: waits for the write lock, opens the
\* implicit transaction if none is open.
Write(p, st) ==
  /\ lock \in {0, p}
  /\ lock' = p
  /\ tx' = [tx EXCEPT ![p] = [open |-> TRUE, st |-> st]]
  /\ UNCHANGED storeVars

\* db.commit()
Commit(p) ==
  /\ menu' = View(p).menu
  /\ seq' = View(p).seq
  /\ orders' = View(p).orders
  /\ everIds' = everIds \cup DOMAIN View(p).menu
  /\ lock' = IF lock = p THEN 0 ELSE lock
  /\ tx' = [tx EXCEPT ![p] = NoTx]
  /\ UNCHANGED schema

Goto(p, l) == pc' = [pc EXCEPT ![p] = l]

Reply(p, r) == resp' = [resp EXCEPT ![p] = r]

\* A request is served by the lowest context that is free.
Begin(p, r) ==
  /\ pc[p] = "idle"
  /\ \A q \in Contexts : q < p => pc[q] # "idle"
  /\ budget > 0
  /\ budget' = budget - 1
  /\ req' = [req EXCEPT ![p] = r]
  /\ lastInit' = IF r.op = "init_db" THEN lastInit ELSE NoLastInit
  /\ began' = [began EXCEPT ![p] = IF r.op \in MenuOps
                                     THEN [valid |-> TRUE, st |-> Committed]
                                     ELSE NoBegan]
  /\ UNCHANGED procVars

\* ------------------------------------------------------------- init_db
StartInit(p) ==
  /\ Begin(p, [NoReq EXCEPT !.op = "init_db"])
  /\ Goto(p, "init_schema")
  /\ UNCHANGED <<storeVars, lock, tx, localVars, resp>>

\* executescript(CREATE TABLE IF NOT EXISTS ...); commit(); the PRAGMA
\* check finds the inventory column in every store this program created.
InitSchema(p) ==
  /\ pc[p] = "init_schema"
  /\ schema' = TRUE
  /\ Goto(p, "init_count")
  /\ UNCHANGED <<menu, seq, orders, everIds, lock, tx, req, localVars, resp,
                 envVars>>

\* SELECT COUNT(*) FROM menu_items, and the test on it.
InitCount(p) ==
  /\ pc[p] = "init_count"
  /\ IF NeedsSeed(Cardinality(DOMAIN View(p).menu))
       THEN Goto(p, "init_seed") /\ UNCHANGED resp
       ELSE Goto(p, "teardown") /\ Reply(p, Resp(200, ""))
  /\ UNCHANGED <<storeVars, lock, tx, req, localVars, envVars>>

\* executemany(INSERT ...) of the default catalog.
InitSeed(p) ==
  /\ pc[p] = "init_seed"
  /\ View(p).seq + Len(DefaultItems) <= MaxRowId
  /\ Write(p, InsertMany(View(p), DefaultItems))
  /\ Goto(p, "init_commit")
  /\ UNCHANGED <<req, localVars, resp, envVars>>

InitCommit(p) ==
  /\ pc[p] = "init_commit"
  /\ Commit(p)
  /\ Goto(p, "teardown")
  /\ Reply(p, Resp(200, ""))
  /\ UNCHANGED <<req, localVars, envVars>>

\* ------------------------------------------------- POST /api/orders
\* The item lists of the order bodies: the empty list, single units, three
\* units of one item, two items in either order, and lists with an unknown
\* id (0) or more units than any stock of item 2 used below.
Ids(l) == List([j \in 1..Len(l) |-> Num(100 * l[j])])

ItemLists ==
  {<<>>, <<1>>, <<2>>, <<1, 1, 1>>, <<2, 1>>, <<1, 2>>, <<0>>, <<1, 0>>,
   <<2, 2, 0>>}

\* No items key, a body whose items is not a list, a list with an element
\* that is no integer, and the lists of ids.
ItemsInputs ==
  {Absent, Str("x"), List(<<Num(100), Str("x")>>)}
    \cup {Ids(l) : l \in ItemLists}

CustomerInputs == {Absent, Str("Ann")}

\* Reading the body, the list test, the empty order and the int conversion.
StartOrderFrom(p, bodies) ==
  \E b \in bodies :
    LET c == b[1]
        it == b[2]
        items == Get(it, List(<<>>))
    IN /\ Begin(p, [NoReq EXCEPT !.op = "order", !.customer = c, !.items = it])
       /\ IF items.t # "list"
            THEN Goto(p, "teardown") /\ Reply(p, Resp(400, "items must be a list"))
                 /\ UNCHANGED ids
            ELSE IF items.l = <<>>
              THEN Goto(p, "order_empty") /\ UNCHANGED <<resp, ids>>
              ELSE IF ~ToInts(items.l).ok
                THEN Goto(p, "teardown")
                     /\ Reply(p, Resp(400, "items must be integers"))
                     /\ UNCHANGED ids
                ELSE Goto(p, "order_select") /\ UNCHANGED resp
                     /\ ids' = [ids EXCEPT ![p] = ToInts(items.l).v]
       /\ UNCHANGED <<storeVars, lock, tx, rows, total, k, lastrowid>>

\* Every items input from an unnamed customer, and a named customer taking
\* one unit of item 2.
OrderBodies ==
  ({Absent} \X ItemsInputs) \cup ({Str("Ann")} \X {Ids(<<2>>)})

StartOrder(p) == StartOrderFrom(p, OrderBodies)

\* The empty order: INSERT with '' and total 0.
OrderEmpty(p) ==
  /\ pc[p] = "order_empty"
  /\ schema
  /\ Write(p, InsertOrder(View(p), EmptyOrder(Customer(req[p].customer))))
  /\ Goto(p, "order_commit")
  /\ UNCHANGED <<req, localVars, resp, envVars>>

\* The SELECT of the requested rows and the validation of the counts.
OrderSelect(p) ==
  /\ pc[p] = "order_select"
  /\ schema
  /\ LET keys == KeysOf(ids[p])
         rws == Fetch(View(p).menu, keys)
         insufficient == Insufficient(keys, ids[p], rws)
     IN /\ rows' = [rows EXCEPT ![p] = rws]
        /\ IF insufficient # <<>>
             THEN /\ Goto(p, "teardown")
                  /\ Reply(p, [Resp(400, "insufficient_inventory")
                                 EXCEPT !.details = insufficient])
                  /\ UNCHANGED k
             ELSE /\ Goto(p, "order_update")
                  /\ k' = [k EXCEPT ![p] = 1]
                  /\ UNCHANGED resp
  /\ UNCHANGED <<storeVars, lock, tx, req, ids, total, lastrowid, envVars>>

\* One round of the decrement loop: add to the total, UPDATE the row.
OrderUpdate(p) ==
  /\ pc[p] = "order_update"
  /\ LET keys == KeysOf(ids[p])
         i == keys[k[p]]
         qty == Count(ids[p], i)
     IN /\ total' = [total EXCEPT ![p] = @ + LinePrice(rows[p], i, qty)]
        /\ Write(p, Decrement(View(p), i, qty))
        /\ IF k[p] = Len(keys)
             THEN Goto(p, "order_insert") /\ k' = [k EXCEPT ![p] = 0]
             ELSE UNCHANGED pc /\ k' = [k EXCEPT ![p] = @ + 1]
  /\ UNCHANGED <<req, ids, rows, lastrowid, resp, envVars>>

OrderInsert(p) ==
  /\ pc[p] = "order_insert"
  /\ Write(p, InsertOrder(View(p),
                Order(Customer(req[p].customer), ItemsText(ids[p]), total[p])))
  /\ Goto(p, "order_commit")
  /\ UNCHANGED <<req, localVars, resp, envVars>>

OrderCommit(p) ==
  /\ pc[p] = "order_commit"
  /\ Commit(p)
  /\ Goto(p, "teardown")
  /\ Reply(p, [Resp(201, "") EXCEPT !.total = total[p]])
  /\ UNCHANGED <<req, localVars, envVars>>

\* ---------------------------------------------------- POST /api/menu
NameInputs == {Absent, Str("Mocha")}

PriceInputs == {Absent, Num(300), Str("x")}

InventoryInputs == {Absent, Num(100), Str("x")}

\* The ids of DELETE requests: an id no row has, the first row and the last
\* row of the seeded catalog.
ItemIds == {0, 1, 4}

\* The ids of PUT requests: an id no row has and the first row.
UpdateIds == {0, 1}

\* Reading the body and the three validations.
StartPostFrom(p, names, prices, inventories) ==
  \E n \in names, pr \in prices, inv \in inventories :
    /\ Begin(p, [NoReq EXCEPT !.op = "post", !.name = n, !.price = pr,
                              !.inventory = inv])
    /\ IF ~PyFloat(Get(pr, Num(0))).ok
         THEN Goto(p, "teardown") /\ Reply(p, Resp(400, "invalid price"))
         ELSE IF ~PyInt(Get(inv, Num(0))).ok
           THEN Goto(p, "teardown") /\ Reply(p, Resp(400, "invalid inventory"))
           ELSE IF ~Truthy(GetNone(n))
             THEN Goto(p, "teardown") /\ Reply(p, Resp(400, "name required"))
             ELSE Goto(p, "post_insert") /\ UNCHANGED resp
    /\ UNCHANGED <<storeVars, lock, tx, localVars>>

StartPost(p) == StartPostFrom(p, NameInputs, PriceInputs, InventoryInputs)

PostInsert(p) ==
  /\ pc[p] = "post_insert"
  /\ schema
  /\ View(p).seq < MaxRowId
  /\ Write(p, InsertItem(View(p),
                Row(req[p].name.s, PyFloat(Get(req[p].price, Num(0))).v,
                    PyInt(Get(req[p].inventory, Num(0))).v)))
  /\ lastrowid' = [lastrowid EXCEPT ![p] = NextId(View(p))]
  /\ Goto(p, "post_commit")
  /\ UNCHANGED <<req, ids, rows, total, k, resp, envVars>>

PostCommit(p) ==
  /\ pc[p] = "post_commit"
  /\ Commit(p)
  /\ Goto(p, "post_select")
  /\ UNCHANGED <<req, localVars, resp, envVars>>

\* The SELECT of the created row; a row deleted meanwhile makes dict(None)
\* raise.
PostSelect(p) ==
  /\ pc[p] = "post_select"
  /\ Goto(p, "teardown")
  /\ IF lastrowid[p] \in DOMAIN View(p).menu
       THEN Reply(p, [Resp(201, "") EXCEPT !.id = lastrowid[p]])
       ELSE Reply(p, Resp(500, "storage"))
  /\ UNCHANGED <<storeVars, lock, tx, req, localVars, envVars>>

\* ------------------------------------------------ PUT /api/menu/<id>
StartPutFrom(p, itemIds, names, prices, inventories) ==
  \E i \in itemIds, n \in names, pr \in prices, inv \in inventories :
    /\ Begin(p, [NoReq EXCEPT !.op = "put", !.id = i, !.name = n,
                              !.price = pr, !.inventory = inv])
    /\ IF ~PutPrice(pr).ok
         THEN Goto(p, "teardown") /\ Reply(p, Resp(400, "invalid price"))
         ELSE IF ~PutInventory(inv).ok
           THEN Goto(p, "teardown") /\ Reply(p, Resp(400, "invalid inventory"))
           ELSE IF GetNone(n).t = "null" /\ ~PutPrice(pr).set
                   /\ ~PutInventory(inv).set
             THEN Goto(p, "teardown")
                  /\ Reply(p, Resp(400, "no fields to update"))
             ELSE Goto(p, "put_update") /\ UNCHANGED resp
    /\ UNCHANGED <<storeVars, lock, tx, localVars>>

StartPut(p) ==
  StartPutFrom(p, UpdateIds, NameInputs, PriceInputs, InventoryInputs)

PutUpdate(p) ==
  /\ pc[p] = "put_update"
  /\ schema
  /\ Write(p, UpdateItem(View(p), req[p].id, req[p].name,
                PutPrice(req[p].price), PutInventory(req[p].inventory)))
  /\ Goto(p, "put_commit")
  /\ UNCHANGED <<req, localVars, resp, envVars>>

PutCommit(p) ==
  /\ pc[p] = "put_commit"
  /\ Commit(p)
  /\ Goto(p, "put_select")
  /\ UNCHANGED <<req, localVars, resp, envVars>>

PutSelect(p) ==
  /\ pc[p] = "put_select"
  /\ Goto(p, "teardown")
  /\ IF req[p].id \in DOMAIN View(p).menu
       THEN Reply(p, [Resp(200, "") EXCEPT !.id = req[p].id])
       ELSE Reply(p, Resp(404, "not found"))
  /\ UNCHANGED <<storeVars, lock, tx, req, localVars, envVars>>

\* --------------------------------------------- DELETE /api/menu/<id>
StartDelete(p) ==
  \E i \in ItemIds :
    /\ Begin(p, [NoReq EXCEPT !.op = "delete", !.id = i])
    /\ Goto(p, "del_select")
    /\ UNCHANGED <<storeVars, lock, tx, localVars, resp>>

DelSelect(p) ==
  /\ pc[p] = "del_select"
  /\ schema
  /\ IF req[p].id \in DOMAIN View(p).menu
       THEN Goto(p, "del_delete") /\ UNCHANGED resp
       ELSE Goto(p, "teardown") /\ Reply(p, Resp(404, "not found"))
  /\ UNCHANGED <<storeVars, lock, tx, req, localVars, envVars>>

DelDelete(p) ==
  /\ pc[p] = "del_delete"
  /\ Write(p, DeleteItem(View(p), req[p].id))
  /\ Goto(p, "del_commit")
  /\ UNCHANGED <<req, localVars, resp, envVars>>

DelCommit(p) ==
  /\ pc[p] = "del_commit"
  /\ Commit(p)
  /\ Goto(p, "teardown")
  /\ Reply(p, Resp(200, "deleted"))
  /\ UNCHANGED <<req, localVars, envVars>>

\* A statement on a table that does not exist yet raises OperationalError.
FirstStmts ==
  {"order_empty", "order_select", "post_insert", "put_update", "del_select"}

NoSuchTable(p) ==
  /\ pc[p] \in FirstStmts
  /\ ~schema
  /\ Goto(p, "teardown")
  /\ Reply(p, Resp(500, "storage"))
  /\ UNCHANGED <<storeVars, lock, tx, req, localVars, envVars>>

\* ---------------------------------------------------- request teardown
\* close_connection: the connection is closed whatever the outcome.
Close(p) ==
  /\ pc[p] = "teardown"
  /\ menu' = OnClose(Committed, tx[p]).menu
  /\ seq' = OnClose(Committed, tx[p]).seq
  /\ orders' = OnClose(Committed, tx[p]).orders
  /\ everIds' = everIds \cup DOMAIN OnClose(Committed, tx[p]).menu
  /\ lock' = IF lock = p THEN 0 ELSE lock
  /\ tx' = [tx EXCEPT ![p] = NoTx]
  /\ Goto(p, "idle")
  /\ req' = [req EXCEPT ![p] = NoReq]
  /\ ids' = [ids EXCEPT ![p] = <<>>]
  /\ rows' = [rows EXCEPT ![p] = NoMenu]
  /\ total' = [total EXCEPT ![p] = 0]
  /\ k' = [k EXCEPT ![p] = 0]
  /\ lastrowid' = [lastrowid EXCEPT ![p] = 0]
  /\ lastInit' = IF req[p].op = "init_db" /\ resp[p].status = 200
                   THEN [valid |-> TRUE, menu |-> menu']
                   ELSE NoLastInit
  /\ began' = [began EXCEPT ![p] = NoBegan]
  /\ Reply(p, NoResp)
  /\ UNCHANGED <<schema, budget>>

\* The teardown of a request's context.
Teardown(p) == Close(p) /\ UNCHANGED procVars

\* Statements at which the store can fail the request (database is locked
\* past the busy timeout, disk error): the exception leaves the handler.
WriteStmts ==
  {"init_seed", "init_commit", "order_empty", "order_update", "order_insert",
   "order_commit", "post_insert", "post_commit", "put_update", "put_commit",
   "del_delete", "del_commit"}

StorageError(p) ==
  /\ pc[p] \in WriteStmts
  /\ Goto(p, "teardown")
  /\ Reply(p, Resp(500, "storage"))
  /\ UNCHANGED <<storeVars, lock, tx, req, localVars, envVars>>

\* ------------------------------------------------ the start-up block
\* A call of init_db outside a request: with app.app_context(): init_db()
Invoke(p) ==
  /\ pc[p] = "idle"
  /\ Goto(p, "init_schema")
  /\ req' = [req EXCEPT ![p] = [NoReq EXCEPT !.op = "init_db"]]
  /\ UNCHANGED <<storeVars, lock, tx, localVars, resp, budget, lastInit,
                 began, debugEnv>>

\* Line 268.
MainInit(m) ==
  /\ main[m] = "init_db"
  /\ Invoke(Ctx(m))
  /\ main' = [main EXCEPT ![m] = "initializing"]
  /\ UNCHANGED <<upc, hist>>

\* The database file cannot be opened or read: executescript or the SELECT
\* of init_db raises.
InitError(p) ==
  /\ pc[p] \in {"init_schema", "init_count"}
  /\ Goto(p, "teardown")
  /\ Reply(p, Resp(500, "storage"))
  /\ UNCHANGED <<storeVars, lock, tx, req, localVars, envVars>>

\* The steps of init_db in the context of process m.
OwnInit(m) ==
  \/ InitSchema(Ctx(m))
  \/ InitCount(Ctx(m))
  \/ InitSeed(Ctx(m))
  \/ InitCommit(Ctx(m))
  \/ InitError(Ctx(m))
  \/ StorageError(Ctx(m))

\* Leaving the with block of line 267; an exception of init_db ends the
\* process.
MainInitExit(m) ==
  /\ main[m] = "initializing"
  /\ Close(Ctx(m))
  /\ main' = [main EXCEPT ![m] = IF resp[Ctx(m)].status = 200
                                   THEN "guard" ELSE "exited"]
  /\ UNCHANGED <<debugEnv, upc, hist>>

\* os.environ.get('WERKZEUG_RUN_MAIN') == 'true': set in the reloader's child.
WerkzeugRunMain(m) == m = 2

\* The test of line 269, on app.debug as it is before app.run sets it.
StartsUpdater(m, debug) == WerkzeugRunMain(m) \/ ~debug

\* Lines 269-270: start_periodic_db_updates() starts the thread.
MainGuard(m) ==
  /\ main[m] = "guard"
  /\ main' = [main EXCEPT ![m] = "run"]
  /\ upc' = [upc EXCEPT ![m] = IF StartsUpdater(m, debugEnv)
                                 THEN "call" ELSE @]
  /\ UNCHANGED <<storeVars, lock, tx, pc, req, localVars, resp, budget,
                 lastInit, began, debugEnv, hist>>

\* Line 273, app.run(debug=True): the launched process becomes the
\* supervisor and spawns the child, which runs the module again; the child
\* serves.
MainRun(m) ==
  /\ main[m] = "run"
  /\ main' = IF WerkzeugRunMain(m)
               THEN [main EXCEPT ![m] = "serving"]
               ELSE [main EXCEPT ![m] = "supervising", ![2] = "init_db"]
  /\ UNCHANGED <<storeVars, lock, tx, pc, req, localVars, resp, budget,
                 lastInit, began, debugEnv, upc, hist>>

\* ------------------------------------------------ _periodic_db_updater
Up(n) == IF n < MaxCount THEN n + 1 ELSE n

\* Line 248, in a new application context.
UpdaterCall(m) ==
  /\ upc[m] = "call"
  /\ Invoke(Ctx(m))
  /\ upc' = [upc EXCEPT ![m] = "running"]
  /\ hist' = [hist EXCEPT ![m] = [@ EXCEPT !.runs = Up(@), !.sleeps = 0]]
  /\ UNCHANGED main

UpdaterRun(m) == upc[m] = "running" /\ OwnInit(m)

\* Leaving the with block of line 247: to the handler of line 249 when
\* init_db raised, else to line 251.
UpdaterExit(m) ==
  /\ upc[m] = "running"
  /\ Close(Ctx(m))
  /\ upc' = [upc EXCEPT ![m] = IF resp[Ctx(m)].status = 200
                                 THEN "sleep" ELSE "caught"]
  /\ hist' = [hist EXCEPT ![m].failed = resp[Ctx(m)].status # 200]
  /\ UNCHANGED <<debugEnv, main>>

\* The handler falls back into the loop without sleeping.
AfterCaughtRetries == "call"

\* except Exception: logger.exception(...), then line 251.
AfterCaught == "sleep"

UpdaterLog(m) ==
  /\ upc[m] = "caught"
  /\ upc' = [upc EXCEPT ![m] = AfterCaught]
  /\ UNCHANGED <<storeVars, lock, tx, pc, req, localVars, resp, budget,
                 lastInit, began, debugEnv, main, hist>>

\* time.sleep(interval_seconds) returns and the loop starts over.
UpdaterSleep(m) ==
  /\ upc[m] = "sleep"
  /\ upc' = [upc EXCEPT ![m] = "call"]
  /\ hist' = [hist EXCEPT ![m].sleeps = Up(@)]
  /\ UNCHANGED <<storeVars, lock, tx, pc, req, localVars, resp, budget,
                 lastInit, began, debugEnv, main>>

\* Every step of the updater thread of process m.
UpdaterThread(m) ==
  \/ UpdaterCall(m)
  \/ UpdaterRun(m)
  \/ UpdaterExit(m)
  \/ UpdaterLog(m)
  \/ UpdaterSleep(m)

\* ------------------------------------------------------- specifications
InitLocals ==
  /\ lock = 0
  /\ tx = [p \in AllContexts |-> NoTx]
  /\ pc = [p \in AllContexts |-> "idle"]
  /\ req = [p \in AllContexts |-> NoReq]
  /\ ids = [p \in AllContexts |-> <<>>]
  /\ rows = [p \in AllContexts |-> NoMenu]
  /\ total = [p \in AllContexts |-> 0]
  /\ k = [p \in AllContexts |-> 0]
  /\ lastrowid = [p \in AllContexts |-> 0]
  /\ lastInit = NoLastInit
  /\ resp = [p \in AllContexts |-> NoResp]
  /\ everIds = DOMAIN menu
  /\ began = [p \in AllContexts |-> NoBegan]

\* The server is up: both processes are past the start-up block and no
\* updater thread is looked at.
NoProcs ==
  /\ debugEnv = FALSE
  /\ main = [m \in Procs |-> "serving"]
  /\ upc = [m \in Procs |-> "none"]
  /\ hist = [m \in Procs |-> NoHist]

\* A new database file: no table exists yet.
EmptyStore ==
  /\ schema = FALSE
  /\ menu = NoMenu
  /\ seq = 0
  /\ orders = <<>>

\* Only the initializer runs, from every context that calls it.
InitInit == EmptyStore /\ InitLocals /\ NoProcs /\ budget = MaxRequests + 2

NextInit ==
  \E p \in Contexts :
    \/ StartInit(p)
    \/ InitSchema(p)
    \/ InitCount(p)
    \/ InitSeed(p)
    \/ InitCommit(p)
    \/ StorageError(p)
    \/ Teardown(p)

SpecInit == InitInit /\ [][NextInit]_vars

\* Order placements only, on the seeded catalog after the stock of item 2
\* has come down to its last unit.
SeededMenu(b) ==
  [i \in 1..Len(DefaultItems) |->
     IF i = 2 THEN [DefaultItems[i] EXCEPT !.inventory = b] ELSE DefaultItems[i]]

InitOrders ==
  /\ schema = TRUE
  /\ menu = SeededMenu(1)
  /\ seq = Len(DefaultItems)
  /\ orders = <<>>
  /\ InitLocals
  /\ NoProcs
  /\ budget = MaxRequests

NextOrders ==
  \E p \in Contexts :
    \/ StartOrder(p)
    \/ OrderEmpty(p)
    \/ OrderSelect(p)
    \/ OrderUpdate(p)
    \/ OrderInsert(p)
    \/ OrderCommit(p)
    \/ StorageError(p)
    \/ Teardown(p)

SpecOrders == InitOrders /\ [][NextOrders]_vars

\* The whole application: the store before or after the start-up run of
\* init_db and every request kind.
SeededStore ==
  /\ schema = TRUE
  /\ menu = [i \in 1..Len(DefaultItems) |-> DefaultItems[i]]
  /\ seq = Len(DefaultItems)
  /\ orders = <<>>

\* The narrower order bodies of the whole-application specifications.
ShopItemsInputs == {Ids(<<>>), Ids(<<1>>), Ids(<<1, 0>>), Ids(<<2, 1>>)}

ShopOrder(p) == StartOrderFrom(p, CustomerInputs \X ShopItemsInputs)

Init == (EmptyStore \/ SeededStore) /\ InitLocals /\ NoProcs /\ budget = MaxRequests + 1

\* One request after the other.
Next ==
  \/ StartInit(1)
  \/ InitSchema(1)
  \/ InitCount(1)
  \/ InitSeed(1)
  \/ InitCommit(1)
  \/ ShopOrder(1)
  \/ OrderEmpty(1)
  \/ OrderSelect(1)
  \/ OrderUpdate(1)
  \/ OrderInsert(1)
  \/ OrderCommit(1)
  \/ StartPost(1)
  \/ PostInsert(1)
  \/ PostCommit(1)
  \/ PostSelect(1)
  \/ StartPut(1)
  \/ PutUpdate(1)
  \/ PutCommit(1)
  \/ PutSelect(1)
  \/ StartDelete(1)
  \/ DelSelect(1)
  \/ DelDelete(1)
  \/ DelCommit(1)
  \/ NoSuchTable(1)
  \/ StorageError(1)
  \/ Teardown(1)

Spec == Init /\ [][Next]_vars

\* Menu creations and updates only, one after the other, on the seeded
\* catalog; the bodies also carry the empty name and negative numbers.
MenuNameInputs == {Absent, Str("Mocha"), Str("")}

MenuPriceInputs == {Absent, Num(300), Num(-100), Str("x")}

MenuInventoryInputs == {Absent, Num(100), Num(-100), Str("x")}

MenuPost(p) ==
  StartPostFrom(p, MenuNameInputs, MenuPriceInputs, MenuInventoryInputs)

MenuPut(p) ==
  StartPutFrom(p, UpdateIds, MenuNameInputs, MenuPriceInputs,
               MenuInventoryInputs)

InitMenu == SeededStore /\ InitLocals /\ NoProcs /\ budget = MaxRequests

NextMenu ==
  \/ MenuPost(1)
  \/ PostInsert(1)
  \/ PostCommit(1)
  \/ PostSelect(1)
  \/ MenuPut(1)
  \/ PutUpdate(1)
  \/ PutCommit(1)
  \/ PutSelect(1)
  \/ StorageError(1)
  \/ Teardown(1)

SpecMenu == InitMenu /\ [][NextMenu]_vars

\* `python app.py`: the start-up block in the launched process and in the
\* reloader's child, and the updater threads they start, on a database file
\* that is new or holds the catalog; FLASK_DEBUG may be set or not.
InitMain ==
  /\ (EmptyStore \/ SeededStore)
  /\ InitLocals
  /\ budget = 0
  /\ debugEnv \in BOOLEAN
  /\ main = [m \in Procs |-> IF m = 1 THEN "init_db" ELSE "absent"]
  /\ upc = [m \in Procs |-> "none"]
  /\ hist = [m \in Procs |-> NoHist]

NextMain ==
  \E m \in Procs :
    \/ MainInit(m)
    \/ (main[m] = "initializing" /\ OwnInit(m))
    \/ MainInitExit(m)
    \/ MainGuard(m)
    \/ MainRun(m)
    \/ UpdaterThread(m)

\* A started thread of a live process keeps being scheduled, and each of
\* its statements returns or raises.
SpecMain ==
  InitMain /\ [][NextMain]_vars /\ \A m \in Procs : WF_vars(UpdaterThread(m))

\* Order placements and initializer runs, concurrently, on the catalog as
\* it was seeded.  The order bodies: no items, three units of one item, two
\* items, and the whole seeded stock of item 2.
WholeStock(i) == [j \in 1..DefaultItems[i].inventory |-> i]

StockItemsInputs ==
  {Ids(<<>>), Ids(<<1, 1, 1>>), Ids(<<2, 1>>), Ids(WholeStock(2))}

StockOrder(p) == StartOrderFrom(p, {Absent} \X StockItemsInputs)

InitStock == SeededStore /\ InitLocals /\ NoProcs /\ budget = MaxRequests

NextStock ==
  \E p \in Contexts :
    \/ StartInit(p)
    \/ InitSchema(p)
    \/ InitCount(p)
    \/ StockOrder(p)
    \/ OrderEmpty(p)
    \/ OrderSelect(p)
    \/ OrderUpdate(p)
    \/ OrderInsert(p)
    \/ OrderCommit(p)
    \/ StorageError(p)
    \/ Teardown(p)

SpecStock == InitStock /\ [][NextStock]_vars

\* ============================================================== claims
\* The step in which context p commits an order and answers 201.
CommitsOrder(p) ==
  /\ pc[p] = "order_commit"
  /\ pc'[p] = "teardown"
  /\ resp'[p].status = 201

\* The step in which the request of context p fails on a storage error.
FailsInOrder(p) ==
  /\ pc[p] \in {"order_update", "order_insert", "order_commit"}
  /\ pc'[p] = "teardown"
  /\ resp'[p].status = 500

StoreUnchanged == menu' = menu /\ orders' = orders /\ seq' = seq

IdSet(s) == {s[j] : j \in 1..Len(s)}

RECURSIVE SumPrice(_, _, _)
SumPrice(S, rws, s) ==
  IF S = {} THEN 0
  ELSE LET i == CHOOSE x \in S : TRUE
       IN rws[i].price * Count(s, i) + SumPrice(S \ {i}, rws, s)

DigitVal(c) == CHOOSE d \in 0..9 : Digits[d + 1] = c

RECURSIVE Walk(_, _, _, _)
Walk(txt, j, sign, n) ==
  IF j > Len(txt) THEN <<sign * n>>
  ELSE IF txt[j] = "," THEN <<sign * n>> \o Walk(txt, j + 1, 1, 0)
  ELSE IF txt[j] = "-" THEN Walk(txt, j + 1, -1, n)
  ELSE Walk(txt, j + 1, sign, 10 * n + DigitVal(txt[j]))

\* The id sequence a stored items text spells.
ParseIds(txt) == IF txt = <<>> THEN <<>> ELSE Walk(txt, 1, 1, 0)

\* C1: an order whose ids all exist with enough stock passes validation,
\* and its commit decrements every referenced inventory by exactly the
\* multiplicity of the id, leaves the other items alone, inserts exactly one
\* order row and stores (and answers) total = sum of price x multiplicity
\* over the distinct ids.
C1_OrderDecrementsAndTotals ==
  [][\A p \in Contexts :
       /\ ( /\ pc[p] = "order_select"
            /\ pc'[p] # "order_select"
            /\ \A i \in IdSet(ids[p]) :
                 i \in DOMAIN menu /\ Count(ids[p], i) <= menu[i].inventory )
          => pc'[p] = "order_update"
       /\ (CommitsOrder(p) /\ ids[p] # <<>>)
          => /\ DOMAIN menu' = DOMAIN menu
             /\ IdSet(ids[p]) \subseteq DOMAIN menu
             /\ \A i \in DOMAIN menu :
                  /\ menu'[i].inventory = menu[i].inventory - Count(ids[p], i)
                  /\ menu'[i].name = menu[i].name
                  /\ menu'[i].price = menu[i].price
             /\ Len(orders') = Len(orders) + 1
             /\ SubSeq(orders', 1, Len(orders)) = orders
             /\ orders'[Len(orders')].total = SumPrice(IdSet(ids[p]), menu, ids[p])
             /\ resp'[p].total = SumPrice(IdSet(ids[p]), menu, ids[p])
    ]_vars

C1_Witness ==
  \E p \in Contexts :
    /\ pc[p] = "teardown"
    /\ resp[p].status = 201
    /\ resp[p].total = 750
    /\ ids[p] = <<1, 1, 1>>
    /\ menu[1].inventory = 17
    /\ Len(orders) = 1

\* The ids of a request that are unknown or short of stock in the store.
Offending(p) ==
  {i \in IdSet(ids[p]) :
     i \notin DOMAIN menu \/ menu[i].inventory < Count(ids[p], i)}

\* C2: an order with an unknown or under-stocked id is answered 400
\* insufficient_inventory with exactly one detail per offending id, and no
\* step of that request changes an inventory or inserts an order.
C2_RejectedOrderChangesNothing ==
  [][\A p \in Contexts :
       /\ ( /\ pc[p] = "order_select"
            /\ pc'[p] # "order_select"
            /\ Offending(p) # {} )
          => /\ pc'[p] = "teardown"
             /\ resp'[p].status = 400
             /\ resp'[p].error = "insufficient_inventory"
             /\ Len(resp'[p].details) = Cardinality(Offending(p))
             /\ {resp'[p].details[j].id : j \in 1..Len(resp'[p].details)}
                  = Offending(p)
             /\ ~tx'[p].open
             /\ StoreUnchanged
       /\ ( /\ pc[p] = "teardown"
            /\ resp[p].error = "insufficient_inventory"
            /\ pc'[p] = "idle" )
          => StoreUnchanged
    ]_vars

C2_Witness ==
  \E p \in Contexts :
    /\ pc[p] = "teardown"
    /\ resp[p].error = "insufficient_inventory"
    /\ Len(resp[p].details) = 2
    /\ resp[p].details[1].kind = "only_left"
    /\ resp[p].details[2].kind = "not_found"

\* C3: no committed order takes more units of an item than the committed
\* inventory holds when it commits; two orders that both read the last unit
\* of an item therefore never both succeed.
C3_NoOversell ==
  [][\A p \in Contexts :
       CommitsOrder(p)
         => \A i \in DOMAIN menu : Count(ids[p], i) <= menu[i].inventory
    ]_vars

\* C4: after any interleaving of order placements every inventory is >= 0.
C4_InventoryNonNegative ==
  \A i \in DOMAIN menu : menu[i].inventory >= 0

\* C5: an order's decrements and its order row reach the store together or
\* not at all: a request that fails between its first UPDATE and its commit
\* leaves the store untouched, also when its connection is closed; the store
\* changes only in the commit step of an order, which applies all of that
\* order's decrements and its row at once; and the rows another request
\* reads are the committed ones.
C5_OrderIsAtomic ==
  [][\A p \in Contexts :
       /\ FailsInOrder(p) => StoreUnchanged
       /\ (pc[p] = "teardown" /\ pc'[p] = "idle")
          => (StoreUnchanged /\ ~tx'[p].open)
       /\ (CommitsOrder(p) /\ ids[p] # <<>>)
          => /\ \A i \in DOMAIN menu :
                  menu'[i].inventory = menu[i].inventory - Count(ids[p], i)
             /\ Len(orders') = Len(orders) + 1
       /\ (pc[p] = "order_select" /\ pc'[p] # "order_select")
          => \A i \in DOMAIN rows'[p] : rows'[p][i] = menu[i]
       /\ ~StoreUnchanged => \E q \in Contexts : CommitsOrder(q)
    ]_vars

C5_Witness ==
  \E p \in Contexts :
    /\ pc[p] = "teardown"
    /\ resp[p].status = 500
    /\ tx[p].open
    /\ \E i \in DOMAIN menu : tx[p].st.menu[i].inventory < menu[i].inventory
    /\ \E i \in IdSet(ids[p]) : tx[p].st.menu[i].inventory = menu[i].inventory
    /\ tx[p].st.orders = orders

\* C9: the items text of a committed order spells the submitted id sequence,
\* in order and with duplicates, so the multiplicity of every id in the
\* stored sequence is the quantity taken from its inventory.
C9_StoredItemsAreSubmittedSequence ==
  [][\A p \in Contexts :
       (CommitsOrder(p) /\ ids[p] # <<>>)
         => LET stored == ParseIds(orders'[Len(orders')].items)
            IN /\ stored = ids[p]
               /\ \A i \in DOMAIN menu :
                    Count(stored, i) = menu[i].inventory - menu'[i].inventory
    ]_vars

C9_Witness ==
  \E p \in Contexts :
    /\ pc[p] = "teardown"
    /\ resp[p].status = 201
    /\ ids[p] = <<2, 1>>
    /\ orders[Len(orders)].items = <<"2", ",", "1">>
    /\ \E j \in 1..Len(orders) : orders[j].items = <<"1", ",", "1", ",", "1">>

\* The default catalog, once: ids 1.. with the rows of DefaultItems.
CatalogRows(m) == {m[i] : i \in DOMAIN m}

IsDefaultCatalog(m) ==
  /\ Cardinality(DOMAIN m) = Len(DefaultItems)
  /\ CatalogRows(m) = {DefaultItems[j] : j \in 1..Len(DefaultItems)}

\* C6: however init_db invocations overlap or repeat, the menu is empty
\* (before the first run has committed) or holds the default catalog exactly
\* once, and a menu that has been seeded is never changed by init_db again.
C6_SeededExactlyOnce ==
  [][ /\ (menu' = NoMenu \/ IsDefaultCatalog(menu'))
      /\ (menu # NoMenu => StoreUnchanged) ]_vars

\* C7: a successful init_db that directly follows a successful init_db
\* leaves the menu the first one left; an init_db that found the menu empty
\* leaves exactly the four default items, one that found it non-empty leaves
\* it as it was.
C7_InitTwiceIsInitOnce ==
  [][\A p \in Contexts :
       /\ ( /\ pc[p] = "teardown" /\ pc'[p] = "idle"
            /\ req[p].op = "init_db" /\ resp[p].status = 200
            /\ lastInit.valid )
          => menu' = lastInit.menu
       /\ (pc[p] = "init_commit" /\ pc'[p] = "teardown" /\ resp'[p].status = 200)
          => (menu = NoMenu /\ IsDefaultCatalog(menu'))
       /\ (pc[p] = "init_count" /\ pc'[p] = "teardown")
          => (menu # NoMenu /\ menu' = menu)
       /\ (pc[p] = "init_count" /\ menu = NoMenu) => pc'[p] = "init_seed"
       /\ (req[p].op = "init_db" /\ pc[p] # "init_commit") => menu' = menu
    ]_vars

C7_Witness ==
  /\ lastInit.valid
  /\ IsDefaultCatalog(lastInit.menu)
  /\ pc[1] = "teardown"
  /\ req[1].op = "init_db"
  /\ resp[1].status = 200
  /\ menu = lastInit.menu

\* C8: an order row, once inserted, keeps its customer_name, items and total
\* and its place in the table through every later step of every request.
C8_OrdersAreImmutable ==
  [][ /\ Len(orders') >= Len(orders)
      /\ \A j \in 1..Len(orders) : orders'[j] = orders[j] ]_vars

C8_Witness ==
  /\ Len(orders) = 1
  /\ orders[1].items = <<"1">>
  /\ orders[1].total = 250
  /\ orders[1].customer_name = "Ann"
  /\ \/ 1 \notin DOMAIN menu
     \/ (1 \in DOMAIN menu /\ menu[1].price = 300)

\* The step in which context p commits the UPDATE of a PUT.
CommitsPut(p) == pc[p] = "put_commit" /\ pc'[p] = "put_select"

\* C10: the commit of a PUT changes, on the addressed item, only the fields
\* the body carries (to the values it carries), and changes no other menu
\* item and no order.
C10_PutChangesOnlyGivenFields ==
  [][\A p \in Contexts :
       CommitsPut(p)
         => /\ DOMAIN menu' = DOMAIN menu
            /\ orders' = orders
            /\ \A i \in DOMAIN menu :
                 IF i = req[p].id
                   THEN /\ (req[p].name = Absent => menu'[i].name = menu[i].name)
                        /\ (req[p].price = Absent => menu'[i].price = menu[i].price)
                        /\ (req[p].inventory = Absent
                              => menu'[i].inventory = menu[i].inventory)
                        /\ (req[p].name # Absent => menu'[i].name = req[p].name.s)
                        /\ (req[p].price # Absent
                              => menu'[i].price = req[p].price.c)
                        /\ (req[p].inventory # Absent
                              => menu'[i].inventory * 100 = req[p].inventory.c)
                   ELSE menu'[i] = menu[i]
    ]_vars

C10_Witness ==
  \E p \in Contexts :
    /\ pc[p] = "teardown"
    /\ req[p].op = "put"
    /\ resp[p].status = 200
    /\ req[p].name = Absent
    /\ req[p].inventory = Absent
    /\ menu[1] = Row("Espresso", 300, 20)

\* C11: DELETE of an id the menu does not hold answers 404 and changes
\* nothing; DELETE of an id it holds removes that row and leaves every other
\* row as it was, and an id that has left the menu is in no later menu.
C11_DeleteRemovesForGood ==
  [][\A p \in Contexts :
       /\ (pc[p] = "del_select" /\ pc'[p] # "del_select" /\ schema
            /\ req[p].id \notin DOMAIN menu)
            => /\ resp'[p].status = 404
               /\ pc'[p] = "teardown"
               /\ StoreUnchanged
       /\ (pc[p] = "del_commit" /\ resp'[p].status = 200)
            => /\ DOMAIN menu' = DOMAIN menu \ {req[p].id}
               /\ \A i \in DOMAIN menu' : menu'[i] = menu[i]
       /\ \A i \in everIds \ DOMAIN menu : i \notin DOMAIN menu'
    ]_vars

\* A creation answered after the last seeded row was deleted: the listing
\* holds the new row and not the deleted one.
C11_Witness ==
  /\ pc[1] = "teardown"
  /\ req[1].op = "post"
  /\ resp[1].status = 201
  /\ 4 \in everIds
  /\ 4 \notin DOMAIN menu
  /\ {1, 2, 3} \subseteq DOMAIN menu

\* C12: the id a successful creation returns is the id of the row it
\* committed, and that id was in no menu before: neither in the current one
\* nor in any earlier one, whatever was created, deleted or seeded since.
C12_CreatedIdIsFresh ==
  [][\A p \in Contexts :
       /\ (pc[p] = "post_commit" /\ pc'[p] = "post_select")
            => /\ lastrowid[p] \notin everIds
               /\ DOMAIN menu' = DOMAIN menu \cup {lastrowid[p]}
               /\ \A i \in DOMAIN menu : menu'[i] = menu[i]
       /\ (pc[p] = "post_select" /\ resp'[p].status = 201)
            => /\ resp'[p].id = lastrowid[p]
               /\ resp'[p].id \in DOMAIN menu
    ]_vars

\* A creation answered with id 5 on a menu that was seeded with ids 1..4 and
\* has lost the row of id 4 since.
C12_Witness ==
  /\ pc[1] = "teardown"
  /\ req[1].op = "post"
  /\ resp[1].status = 201
  /\ resp[1].id = 5
  /\ everIds = 1..5
  /\ DOMAIN menu = {1, 2, 3, 5}

\* C13: an order whose items key is missing or holds the empty list is
\* answered 201 with total 0; its commit appends exactly one order row, with
\* the customer's name, the empty items text and total 0, and leaves every
\* menu row, so every inventory, as it was.
C13_EmptyOrderIsRecorded ==
  [][\A p \in Contexts :
       /\ (pc[p] = "idle" /\ req'[p].op = "order"
            /\ Get(req'[p].items, List(<<>>)) = List(<<>>))
            => pc'[p] = "order_empty"
       /\ (pc[p] = "order_empty" /\ pc'[p] = "order_commit")
            => tx'[p].st.menu = View(p).menu
       /\ (CommitsOrder(p) /\ ids[p] = <<>>)
            => /\ orders' = Append(orders,
                      [customer_name |-> Customer(req[p].customer),
                       items |-> <<>>, total |-> 0])
               /\ menu' = menu
               /\ resp'[p].total = 0
    ]_vars

\* An order without an items key was answered 201 while another order's
\* decrement was pending.
C13_Witness ==
  \E p \in Contexts :
    /\ pc[p] = "teardown"
    /\ req[p].op = "order"
    /\ req[p].items = Absent
    /\ resp[p].status = 201
    /\ orders # <<>>
    /\ orders[Len(orders)] = Order("Guest", <<>>, 0)
    /\ \E q \in Contexts : tx[q].open

\* C14: every row of the committed menu has a non-empty name, a price >= 0
\* and an inventory >= 0.
C14_StoredItemsAreValid ==
  \A i \in DOMAIN menu :
    /\ menu[i].name # ""
    /\ menu[i].price >= 0
    /\ menu[i].inventory >= 0

\* The state right after the updater thread of process m has called init_db.
Invoked(m) == upc[m] = "running" /\ pc[Ctx(m)] = "init_schema"

\* C15: a started updater thread calls init_db again and again, whether the
\* runs succeed or raise: every run is followed by the sleep and every sleep
\* by the next call, a run that raised leaves the thread in the loop, and
\* between two consecutive calls the thread sleeps exactly once.
C15_UpdaterNeverStops ==
  /\ \A m \in Procs : [](upc[m] # "none" => <>Invoked(m))
  /\ \A m \in Procs : [](Invoked(m) => <>(upc[m] = "sleep"))
  /\ [][\A m \in Procs :
          /\ (upc[m] = "call" /\ upc'[m] = "running")
               => (hist[m].runs > 0 => hist[m].sleeps = 1)
          /\ (upc[m] = "running" /\ upc'[m] # "running")
               => upc'[m] \in {"sleep", "caught"}
          /\ upc[m] = "caught" => upc'[m] \in {"caught", "sleep"}
          /\ upc[m] = "sleep" => upc'[m] \in {"sleep", "call"}
      ]_vars

\* The thread has called init_db once more after a run that raised and the
\* sleep that followed it.
C15_Witness ==
  \E m \in Procs :
    /\ Invoked(m)
    /\ hist[m].runs = 2
    /\ hist[m].failed

\* C16: at most one process has started an updater thread.
C16_AtMostOneUpdater == Cardinality({m \in Procs : upc[m] # "none"}) <= 1

\* The occurrences of id i in the items texts of the orders os.
RECURSIVE Sold(_, _)
Sold(os, i) ==
  IF os = <<>> THEN 0
  ELSE Count(ParseIds(Head(os).items), i) + Sold(Tail(os), i)

\* C17: while only orders and initializer runs act on the seeded catalog,
\* every item's seeded inventory minus its committed inventory is the number
\* of occurrences of its id in the items of the committed orders.
C17_StockIsConserved ==
  /\ DOMAIN menu = 1..Len(DefaultItems)
  /\ \A i \in DOMAIN menu :
       DefaultItems[i].inventory - menu[i].inventory = Sold(orders, i)

\* Two concurrent orders have each taken the whole stock of item 2.
C17_Witness ==
  /\ Len(orders) = 2
  /\ menu[2].inventory = -DefaultItems[2].inventory

====
